---- MODULE Spec2Model ----
(***************************************************************************)
(* render-md (src/src/App.tsx): a markdown document is normalised by       *)
(* normalizeMarkdown, cut into pages by splitIntoPages, and acquired       *)
(* through a FileReader by onPickFile.                                     *)
(*                                                                         *)
(* Strings are TLA+ strings, one character per UTF-16 code unit.  The      *)
(* module's source text is ASCII, so the non-ASCII code units the program  *)
(* names are written with reserved ASCII characters that occur nowhere     *)
(* else in the documents of the model:                                     *)
(*     ~  U+FEFF byte-order mark        |  U+200B zero-width space         *)
(*     #  U+0E15   $  U+0E2D   %  U+0E19   @  U+0E17   ^  U+0E35           *)
(*     +  U+0E48   (the six code units of the Thai word in App.tsx:11)     *)
(* The regular expressions of the program are transcribed item by item     *)
(* and run by a matcher with the ECMAScript semantics they rely on:        *)
(* leftmost match, greedy quantifiers with backtracking, the g, m and i    *)
(* flags.                                                                  *)
(***************************************************************************)
EXTENDS Integers, Sequences, FiniteSets, TLC

VARIABLES
    pieces,      \* the fragments the document of a render was assembled from
    markdown,    \* useState markdown (App.tsx:28), a JavaScript value
    normalized,  \* const normalized of the useMemo callback (App.tsx:35)
    parts,       \* const parts of splitIntoPages (App.tsx:16)
    pages,       \* const pages (App.tsx:34)
    pc,          \* "input", "normalized", "paged" in a render; "app" in the app
    readers,     \* the FileReader objects created so far (App.tsx:52)
    event,       \* the handler that ran last
    prev,        \* markdown before that handler ran
    threw        \* whether a render threw a TypeError

vars == <<pieces, markdown, normalized, parts, pages, pc, readers, event, prev, threw>>

(***************************************************************************)
(* Bounds of the model.                                                    *)
(***************************************************************************)
MaxNormPieces == 3
MaxMarkers == 2
MaxPicks == 3

(***************************************************************************)
(* Characters.                                                             *)
(***************************************************************************)
BOM == "~"
ZWSP == "|"
ThaiChapter == "#$%@^+"

CharAt(s, i) == SubSeq(s, i, i)

\* ECMAScript LineTerminator, within the model's alphabet.
LineTerminator == {"\n", "\r"}

\* ECMAScript WhiteSpace and LineTerminator (what \s matches and trim removes),
\* within the model's alphabet; U+FEFF is WhiteSpace, U+200B is not.
WhiteSpace == {" ", "\t", "\n", "\r", BOM}

ToUpper ==
    "a" :> "A" @@ "b" :> "B" @@ "c" :> "C" @@ "d" :> "D" @@ "e" :> "E" @@
    "f" :> "F" @@ "g" :> "G" @@ "h" :> "H" @@ "i" :> "I" @@ "j" :> "J" @@
    "k" :> "K" @@ "l" :> "L" @@ "m" :> "M" @@ "n" :> "N" @@ "o" :> "O" @@
    "p" :> "P" @@ "q" :> "Q" @@ "r" :> "R" @@ "s" :> "S" @@ "t" :> "T" @@
    "u" :> "U" @@ "v" :> "V" @@ "w" :> "W" @@ "x" :> "X" @@ "y" :> "Y" @@
    "z" :> "Z"

\* Canonicalize of a case-insensitive match: the character's upper case.
Canonicalize(c) == IF c \in DOMAIN ToUpper THEN ToUpper[c] ELSE c

(***************************************************************************)
(* Regular expressions: a sequence of items and the flags.                 *)
(*   lit  : the characters of str, in order                                *)
(*   one  : one character of the class (set, negated when neg)             *)
(*   many : min or more characters of the class, greedy                    *)
(*   bol  : ^        eol : $                                               *)
(***************************************************************************)
Lit(w) == [kind |-> "lit", str |-> w, set |-> {}, neg |-> FALSE, min |-> 0]
One(S) == [kind |-> "one", str |-> "", set |-> S, neg |-> FALSE, min |-> 1]
Many(S, n) == [kind |-> "many", str |-> "", set |-> S, neg |-> FALSE, min |-> n]
ManyNot(S, n) == [kind |-> "many", str |-> "", set |-> S, neg |-> TRUE, min |-> n]
Bol == [kind |-> "bol", str |-> "", set |-> {}, neg |-> FALSE, min |-> 0]
Eol == [kind |-> "eol", str |-> "", set |-> {}, neg |-> FALSE, min |-> 0]

RegExp(items, flags) ==
    [items |-> items, ignoreCase |-> "i" \in flags, multiline |-> "m" \in flags]

\* Whether character c belongs to the item's class.
InClass(c, item, ic) ==
    LET has == \/ c \in item.set
               \/ ic /\ \E d \in item.set : Canonicalize(d) = Canonicalize(c)
    IN  has # item.neg

\* Whether the literal w stands in s right after position p.
LitAt(s, p, w, ic) ==
    /\ p + Len(w) <= Len(s)
    /\ LET t == SubSeq(s, p + 1, p + Len(w))
       IN  \/ t = w
           \/ ic /\ \A i \in 1..Len(w) :
                      Canonicalize(CharAt(t, i)) = Canonicalize(CharAt(w, i))

BolAt(s, p, re) == p = 0 \/ (re.multiline /\ CharAt(s, p) \in LineTerminator)
EolAt(s, p, re) == p = Len(s) \/ (re.multiline /\ CharAt(s, p + 1) \in LineTerminator)

\* The positions from which one character of the class leads into X.
StepBack(s, item, ic, X) ==
    {p \in 0..(Len(s) - 1) : (p + 1) \in X /\ InClass(CharAt(s, p + 1), item, ic)}

RECURSIVE StepBackN(_, _, _, _, _)
StepBackN(s, item, ic, X, n) ==
    IF n = 0 THEN X ELSE StepBackN(s, item, ic, StepBack(s, item, ic, X), n - 1)

Maximum(S) == CHOOSE m \in S : \A n \in S : n <= m
Minimum(S) == CHOOSE m \in S : \A n \in S : m <= n

\* The positions of the characters of s that are not of the class.
Breaks(s, item, ic) == {j \in 1..Len(s) : ~InClass(CharAt(s, j), item, ic)}

\* The furthest position a run of characters of the class reaches from p,
\* brk being the positions of the characters that are not of the class.
RunEnd(s, brk, p) ==
    CHOOSE e \in p..Len(s) :
        /\ e = Len(s) \/ (e + 1) \in brk
        /\ \A j \in (p + 1)..e : j \notin brk

\* The earliest position from which a run of characters of the class reaches q.
RunStart(brk, q) ==
    q - (CHOOSE d \in 0..q :
            /\ d = q \/ (q - d) \in brk
            /\ \A j \in (q - d + 1)..q : j \notin brk)

\* The positions from which zero or more characters of the class lead into X.
StarBack(s, item, ic, X) ==
    IF X = 0..Len(s) THEN X
    ELSE LET brk == Breaks(s, item, ic)
         IN  UNION {RunStart(brk, q)..q : q \in X}

\* The positions from which the item can match with the rest of the
\* expression matching from a position of X.
ItemBack(s, re, item, X) ==
    IF X = {} THEN {} ELSE
    CASE item.kind = "lit" ->
           {p \in 0..Len(s) : (p + Len(item.str)) \in X
                               /\ LitAt(s, p, item.str, re.ignoreCase)}
      [] item.kind = "one" -> StepBack(s, item, re.ignoreCase, X)
      [] item.kind = "many" ->
           StepBackN(s, item, re.ignoreCase,
                     StarBack(s, item, re.ignoreCase, X), item.min)
      [] item.kind = "bol" -> {p \in X : BolAt(s, p, re)}
      [] item.kind = "eol" -> {p \in X : EolAt(s, p, re)}

\* can[k] is the set of positions from which items k.. of re can match;
\* can[Len(re.items) + 1] is every position.
RECURSIVE CanMatchFrom(_, _, _, _)
CanMatchFrom(s, re, k, acc) ==
    IF k = 0 THEN acc
    ELSE CanMatchFrom(s, re, k - 1,
                      <<ItemBack(s, re, re.items[k], Head(acc))>> \o acc)

CanMatch(s, re) == CanMatchFrom(s, re, Len(re.items), <<0..Len(s)>>)

\* The end of the match the backtracking matcher finds for items k.. at
\* position p (p is in can[k]): each quantifier takes the most characters
\* that still let the rest match.
RECURSIVE MatchEnd(_, _, _, _, _)
MatchEnd(s, re, can, k, p) ==
    IF k > Len(re.items) THEN p
    ELSE LET item == re.items[k]
         IN  CASE item.kind = "lit" -> MatchEnd(s, re, can, k + 1, p + Len(item.str))
               [] item.kind = "one" -> MatchEnd(s, re, can, k + 1, p + 1)
               [] item.kind = "many" ->
                    LET far == RunEnd(s, Breaks(s, item, re.ignoreCase), p)
                        e == Maximum({q \in (p + item.min)..far : q \in can[k + 1]})
                    IN  MatchEnd(s, re, can, k + 1, e)
               [] OTHER -> MatchEnd(s, re, can, k + 1, p)

\* The successive matches of a global expression from lastIndex on, each as
\* <<start, end>>; an empty match advances lastIndex by one.
RECURSIVE MatchesFrom(_, _, _, _)
MatchesFrom(s, re, can, lastIndex) ==
    LET starts == {p \in can[1] : p >= lastIndex}
    IN  IF starts = {} THEN <<>>
        ELSE LET b == Minimum(starts)
                 e == MatchEnd(s, re, can, 1, b)
             IN  <<<<b, e>>>> \o MatchesFrom(s, re, can, IF e = b THEN e + 1 ELSE e)

Matches(s, re) == MatchesFrom(s, re, CanMatch(s, re), 0)

\* String.prototype.replace with a global expression: the text between the
\* matches, each match replaced by replacement[the matched text].
RECURSIVE ReplaceFrom(_, _, _, _, _)
ReplaceFrom(s, ms, texts, i, from) ==
    IF i > Len(ms) THEN SubSeq(s, from + 1, Len(s))
    ELSE SubSeq(s, from + 1, ms[i][1]) \o texts[i]
           \o ReplaceFrom(s, ms, texts, i + 1, ms[i][2])

Replace(s, re, replacement) ==
    LET ms == Matches(s, re)
        texts == [i \in 1..Len(ms) |-> replacement[SubSeq(s, ms[i][1] + 1, ms[i][2])]]
    IN  ReplaceFrom(s, ms, texts, 1, 0)

\* String.prototype.split with an expression that has no capture group and
\* matches no empty string: the text between the matches.
RECURSIVE SplitFrom(_, _, _, _)
SplitFrom(s, ms, i, from) ==
    IF i > Len(ms) THEN <<SubSeq(s, from + 1, Len(s))>>
    ELSE <<SubSeq(s, from + 1, ms[i][1])>> \o SplitFrom(s, ms, i + 1, ms[i][2])

Split(s, re) == SplitFrom(s, Matches(s, re), 1, 0)

\* String.prototype.trim.
RECURSIVE TrimStart(_)
TrimStart(s) ==
    IF Len(s) > 0 /\ CharAt(s, 1) \in WhiteSpace
    THEN TrimStart(SubSeq(s, 2, Len(s)))
    ELSE s

RECURSIVE TrimEnd(_)
TrimEnd(s) ==
    IF Len(s) > 0 /\ CharAt(s, Len(s)) \in WhiteSpace
    THEN TrimEnd(SubSeq(s, 1, Len(s) - 1))
    ELSE s

Trim(s) == TrimEnd(TrimStart(s))

(***************************************************************************)
(* normalizeMarkdown (App.tsx:7-12).                                       *)
(***************************************************************************)
Empty == [m \in STRING |-> ""]

\* A pattern that forgets the zero-width space.
InvisibleMarksBomOnly == RegExp(<<One({BOM})>>, {"g"})

\* /\uFEFF|\u200B/g
InvisibleMarks == RegExp(<<One({BOM, ZWSP})>>, {"g"})

\* /^[ \t]*[-*_]{3,}[ \t]*$/gm
HorizontalRule ==
    RegExp(<<Bol, Many({" ", "\t"}, 0), Many({"-", "*", "_"}, 3),
             Many({" ", "\t"}, 0), Eol>>, {"g", "m"})

\* /\n(\*\*<Thai word>)/g
TocLine == RegExp(<<Lit("\n"), Lit("**" \o ThaiChapter)>>, {"g"})

\* '\n\n$1': group 1 is the match after its leading newline.
TocReplacement == [m \in STRING |-> "\n\n" \o SubSeq(m, 2, Len(m))]

stripInvisible(s) == Replace(s, InvisibleMarks, Empty)
stripRules(s) == Replace(s, HorizontalRule, Empty)
fixToc(s) == Replace(s, TocLine, TocReplacement)

normalizeMarkdown(s) == fixToc(stripRules(stripInvisible(s)))

(***************************************************************************)
(* splitIntoPages (App.tsx:14-25).                                         *)
(***************************************************************************)
Quotes == {"'", "\""}

\* A pattern that accepts the double quote only.
PageBreakDoubleQuoted ==
    RegExp(<<Lit("<div"), Many(WhiteSpace, 1), ManyNot({">"}, 0), Lit("style="),
             One({"\""}), ManyNot(Quotes, 0), Lit("page-break-after:"),
             Many(WhiteSpace, 0), Lit("always"), ManyNot(Quotes, 0), One({"\""}),
             ManyNot({">"}, 0), Lit("></div>")>>, {"g", "i"})

\* /<div\s+[^>]*style=['"][^'"]*page-break-after:\s*always[^'"]*['"][^>]*><\/div>/gi
PageBreak ==
    RegExp(<<Lit("<div"), Many(WhiteSpace, 1), ManyNot({">"}, 0), Lit("style="),
             One(Quotes), ManyNot(Quotes, 0), Lit("page-break-after:"),
             Many(WhiteSpace, 0), Lit("always"), ManyNot(Quotes, 0), One(Quotes),
             ManyNot({">"}, 0), Lit("></div>")>>, {"g", "i"})

\* /\s+/g and /&nbsp;/g
Spaces == RegExp(<<Many(WhiteSpace, 1)>>, {"g"})
Nbsp == RegExp(<<Lit("&nbsp;")>>, {"g"})

\* A filter that forgets the &nbsp; entities.
keepPageSpacesOnly(page) == Len(Replace(page, Spaces, Empty)) > 0

\* The filter callback (App.tsx:20-24).
keepPage(page) ==
    LET stripped == Replace(Replace(page, Spaces, Empty), Nbsp, Empty)
    IN  Len(stripped) > 0

RECURSIVE MapTrim(_)
MapTrim(ps) == IF ps = <<>> THEN <<>> ELSE <<Trim(Head(ps))>> \o MapTrim(Tail(ps))

RECURSIVE FilterPages(_)
FilterPages(ps) ==
    IF ps = <<>> THEN <<>>
    ELSE (IF keepPage(Head(ps)) THEN <<Head(ps)>> ELSE <<>>) \o FilterPages(Tail(ps))

splitParts(s) == Split(s, PageBreak)
pagesOf(ps) == FilterPages(MapTrim(ps))
splitIntoPages(s) == pagesOf(splitParts(s))

(***************************************************************************)
(* JavaScript values: a string, an ArrayBuffer, null.                      *)
(***************************************************************************)
Str(s) == [type |-> "string", str |-> s]
ArrayBufferValue == [type |-> "object", str |-> ""]
Null == [type |-> "null", str |-> ""]

(***************************************************************************)
(* The documents of the model.                                             *)
(***************************************************************************)
Token == "**" \o ThaiChapter

RECURSIVE Concat(_)
Concat(ps) == IF ps = <<>> THEN "" ELSE Head(ps) \o Concat(Tail(ps))

\* Documents of short fragments: rules, marks, newlines, the chapter token.
NormPieces == {"---", "--", "-*-", "____", " ", "\n", "a", BOM, ZWSP, Token}
NormDocs == UNION {[1..n -> NormPieces] : n \in 0..MaxNormPieces}

\* Documents of segments separated by page-break markers.
Marker1 == "<div style=\"page-break-after: always;\"></div>"
Marker2 == "<div style='page-break-after:always'></div>"
Markers == {Marker1, Marker2}
Segments == {"", "Intro", " Chapter 1\n", "&nbsp;"}

RECURSIVE PageDocsOf(_)
PageDocsOf(k) ==
    IF k = 0 THEN {<<s>> : s \in Segments}
    ELSE {d \o <<m, s>> : d \in PageDocsOf(k - 1), m \in Markers, s \in Segments}

PageDocs == UNION {PageDocsOf(k) : k \in 0..MaxMarkers}

\* The variants of the marker the specification describes, and marker-like
\* text it calls malformed.
MarkerDeclarations == "<div style=\"color: red; page-break-after: always; margin: 0\"></div>"
MarkerUpperCase == "<DIV STYLE=\"page-break-after: always\"></DIV>"
MarkerSpacedColon == "<div style='page-break-after : always'></div>"
WellFormed == Markers \cup {MarkerDeclarations, MarkerUpperCase, MarkerSpacedColon}
DivNoStyle == "<div></div>"
DivWithText == "<div style=\"page-break-after: always\">text</div>"
DivDataStyle == "<div data-style=\"page-break-after: always\"></div>"
Malformed == {DivNoStyle, DivWithText, DivDataStyle}
VariantDocs == {<<a, x, b>> : a \in Segments, x \in WellFormed \cup Malformed, b \in Segments}

\* Single documents: the end-to-end scenario, whitespace, tabs, a chapter line.
EndToEnd ==
    "Intro\n<div style=\"page-break-after: always;\"></div>\n\nChapter 1 text\n"
    \o "<div style='page-break-after:always'></div>\n&nbsp;\n"
    \o "<div style=\"page-break-after: always\"></div>\nChapter 2"
ExtraDocs == {<<EndToEnd>>, <<"   \n\t  ">>, <<"\t---\t\na">>, <<"--- text">>,
              <<"foo\n", Token, " 1**">>,
              <<Marker1, " \n&nbsp; \t&nbsp;", Marker2, "Intro">>,
              <<"Intro", Marker1, " \n", Marker2, "">>}

Documents == NormDocs \cup PageDocs \cup VariantDocs \cup ExtraDocs

(***************************************************************************)
(* Spec: the render of one document, the useMemo callback (App.tsx:34-37). *)
(***************************************************************************)
Init ==
    /\ pieces \in Documents
    /\ markdown = Str(Concat(pieces))
    /\ normalized = ""
    /\ parts = <<>>
    /\ pages = <<>>
    /\ pc = "input"
    /\ readers = <<>>
    /\ event = "init"
    /\ prev = markdown
    /\ threw = FALSE

Normalize ==
    /\ pc = "input"
    /\ normalized' = normalizeMarkdown(markdown.str)
    /\ pc' = "normalized"
    /\ UNCHANGED <<pieces, markdown, parts, pages, readers, event, prev, threw>>

SplitIntoPages ==
    /\ pc = "normalized"
    /\ parts' = splitParts(normalized)
    /\ pages' = pagesOf(parts')
    /\ pc' = "paged"
    /\ UNCHANGED <<pieces, markdown, normalized, readers, event, prev, threw>>

Next == Normalize \/ SplitIntoPages

Spec == Init /\ [][Next]_vars

(***************************************************************************)
(* SpecApp: file acquisition, onPickFile and its FileReader (App.tsx:50-58)*)
(***************************************************************************)
Files == {"A", "B"}
FileText ==
    [A |-> "Intro\n" \o Marker1 \o "\nChapter 1", B |-> "foo\n" \o Token \o " 1**"]

\* reader.result once the read is done: readAsText gives a string; the
\* type of the field also allows an ArrayBuffer.
ReadResults(f) == {Str(FileText[f]), ArrayBufferValue}

\* A handler that hands the result on without looking at its type.
textOfUnchecked(result) == result

\* const text = typeof reader.result === 'string' ? reader.result : ''
textOf(result) == IF result.type = "string" THEN result ELSE Str("")

InitApp ==
    /\ pieces = <<>>
    /\ markdown = Str("")
    /\ threw = FALSE
    /\ normalized = normalizeMarkdown(markdown.str)
    /\ parts = splitParts(normalized)
    /\ pages = pagesOf(parts)
    /\ pc = "app"
    /\ readers = <<>>
    /\ event = "init"
    /\ prev = markdown

\* onPickFile(file) with a file: a new FileReader starts reading it.
PickFile(f) ==
    /\ pc = "app"
    /\ Len(readers) < MaxPicks
    /\ readers' = Append(readers, [file |-> f, readyState |-> "LOADING", result |-> Null])
    /\ event' = "pick"
    /\ prev' = markdown
    /\ UNCHANGED <<pieces, markdown, normalized, parts, pages, pc, threw>>

\* onPickFile(null): if (!file) return
PickNothing ==
    /\ pc = "app"
    /\ event' = "cancel"
    /\ prev' = markdown
    /\ UNCHANGED <<pieces, markdown, normalized, parts, pages, pc, readers, threw>>

\* reader.onload: setMarkdown(text), and the render that follows, where the
\* useMemo callback runs on the new markdown; String.prototype.replace of a
\* value that is no string throws a TypeError.
OnLoad(i) ==
    /\ pc = "app"
    /\ readers[i].readyState = "LOADING"
    /\ \E result \in ReadResults(readers[i].file) :
          /\ readers' = [readers EXCEPT ![i].readyState = "DONE", ![i].result = result]
          /\ markdown' = textOf(result)
          /\ event' = IF result.type = "string" THEN "load" ELSE "load-nonstring"
    /\ threw' = (markdown'.type # "string")
    /\ normalized' = IF threw' THEN "" ELSE normalizeMarkdown(markdown'.str)
    /\ parts' = IF threw' THEN <<>> ELSE splitParts(normalized')
    /\ pages' = pagesOf(parts')
    /\ prev' = markdown
    /\ UNCHANGED <<pieces, pc>>

\* The read fails: the reader has no onerror handler.
OnError(i) ==
    /\ pc = "app"
    /\ readers[i].readyState = "LOADING"
    /\ readers' = [readers EXCEPT ![i].readyState = "DONE"]
    /\ event' = "error"
    /\ prev' = markdown
    /\ UNCHANGED <<pieces, markdown, normalized, parts, pages, pc, threw>>

NextApp ==
    \/ \E f \in Files : PickFile(f)
    \/ PickNothing
    \/ \E i \in DOMAIN readers : OnLoad(i)
    \/ \E i \in DOMAIN readers : OnError(i)

SpecApp == InitApp /\ [][NextApp]_vars

(***************************************************************************)
(* What the claims speak of.                                               *)
(***************************************************************************)
document == markdown.str

Marks == {BOM, ZWSP}
RuleChars == {"-", "*", "_"}
Blanks == {" ", "\t"}

\* s without its characters of S.
RECURSIVE DeleteChars(_, _)
DeleteChars(s, S) ==
    IF Len(s) = 0 THEN ""
    ELSE IF Len(s) = 1 THEN (IF s \in S THEN "" ELSE s)
    ELSE DeleteChars(SubSeq(s, 1, Len(s) \div 2), S)
           \o DeleteChars(SubSeq(s, Len(s) \div 2 + 1, Len(s)), S)

HasChar(s, S) == \E i \in 1..Len(s) : CharAt(s, i) \in S
CountChar(s, S) == Cardinality({i \in 1..Len(s) : CharAt(s, i) \in S})
Contains(s, w) == \E i \in 0..(Len(s) - Len(w)) : SubSeq(s, i + 1, i + Len(w)) = w

\* The lines of s, in order.
Lines(s) ==
    LET nl == {0} \cup {i \in 1..Len(s) : CharAt(s, i) \in LineTerminator}
    IN  [k \in 1..Cardinality(nl) |->
            LET a == CHOOSE x \in nl : Cardinality({y \in nl : y < x}) = k - 1
                b == IF \E y \in nl : y > a
                     THEN CHOOSE y \in nl : y > a /\ \A z \in nl : z > a => y <= z
                     ELSE Len(s) + 1
            IN  SubSeq(s, a + 1, b - 1)]

\* A line that, apart from spaces and tabs around it, is three or more
\* repetitions of one of - * _ and nothing else.
IsRuleLine(line) ==
    LET inner == {i \in 1..Len(line) : CharAt(line, i) \notin Blanks}
    IN  /\ Cardinality(inner) >= 3
        /\ \E c \in RuleChars : \A i \in inner : CharAt(line, i) = c
        /\ \A i \in 1..Len(line) : \A j \in inner : \A k \in inner :
              (j <= i /\ i <= k) => i \in inner

\* A line of three or more characters, all of them spaces, tabs, - * _.
IsRuleLike(line) ==
    /\ Len(line) >= 3
    /\ \A i \in 1..Len(line) : CharAt(line, i) \in RuleChars \cup Blanks

\* Text that is empty once its whitespace and every &nbsp; are removed.
IsBlank(s) ==
    LET d == DeleteChars(s, WhiteSpace)
    IN  /\ Len(d) % 6 = 0
        /\ \A k \in 0..(Len(d) \div 6 - 1) : SubSeq(d, 6 * k + 1, 6 * k + 6) = "&nbsp;"

IsTrimmed(s) ==
    /\ Len(s) > 0
    /\ CharAt(s, 1) \notin WhiteSpace
    /\ CharAt(s, Len(s)) \notin WhiteSpace

NoTag(s) == ~HasChar(s, {"<"})

\* A document of segments without tags, separated by the markers of Markers,
\* that normalisation leaves as it is.
IsMarkerDoc ==
    /\ Len(pieces) % 2 = 1
    /\ \A i \in DOMAIN pieces :
          IF i % 2 = 0 THEN pieces[i] \in Markers ELSE NoTag(pieces[i])
    /\ normalized = Concat(pieces)

\* The segments of a marker document from the i-th piece on, trimmed, without
\* the blank ones.
RECURSIVE ExpectedPages(_, _)
ExpectedPages(ps, i) ==
    IF i > Len(ps) THEN <<>>
    ELSE (IF IsBlank(ps[i]) THEN <<>> ELSE <<Trim(ps[i])>>) \o ExpectedPages(ps, i + 2)

\* s with a newline added before every chapter token that a single newline
\* precedes, from position i on.
RECURSIVE ExpectedToc(_, _)
ExpectedToc(s, i) ==
    LET at == {j \in (i + 1)..Len(s) :
                  /\ CharAt(s, j) = "\n"
                  /\ j + Len(Token) <= Len(s)
                  /\ SubSeq(s, j + 1, j + Len(Token)) = Token
                  /\ (j = 1 \/ CharAt(s, j - 1) # "\n")}
    IN  IF at = {} THEN SubSeq(s, i + 1, Len(s))
        ELSE SubSeq(s, i + 1, Minimum(at)) \o "\n" \o ExpectedToc(s, Minimum(at))

(***************************************************************************)
(* The claims.                                                             *)
(***************************************************************************)

\* C1: normalisation is idempotent: normalising the normalised document
\* gives the normalised document again.
C1_Idempotent ==
    pc # "input" => normalizeMarkdown(normalized) = normalized

C3_NoPhantomPages ==
    pc = "paged" =>
      /\ \A i \in DOMAIN pages : IsTrimmed(pages[i]) /\ ~IsBlank(pages[i])
      /\ IsBlank(normalized) => pages = <<>>
      /\ IsMarkerDoc =>
            Len(pages) = Cardinality({i \in DOMAIN pieces : i % 2 = 1 /\ ~IsBlank(pieces[i])})

C3_Witness ==
    /\ pc = "paged"
    /\ pieces = <<Marker1, " \n&nbsp; \t&nbsp;", Marker2, "Intro">>
    /\ Len(parts) = 3
    /\ pages = <<"Intro">>

\* C4: a text with N well-formed markers is cut into at most N + 1 segments
\* and no page contains a well-formed marker.
C4_MarkerRemovalTotal ==
    (/\ pc = "paged"
     /\ normalized = Concat(pieces)
     /\ \A i \in DOMAIN pieces : pieces[i] \in WellFormed \/ NoTag(pieces[i]))
    => /\ Len(parts) <= Cardinality({i \in DOMAIN pieces : pieces[i] \in WellFormed}) + 1
       /\ \A i \in DOMAIN pages : \A m \in WellFormed : ~Contains(pages[i], m)

\* C5: every variant of the marker the specification describes cuts the
\* text, and malformed marker-like text is left in the page text.
C5_MatcherVariants ==
    (/\ pc = "paged"
     /\ Len(pieces) = 3
     /\ NoTag(pieces[1]) /\ NoTag(pieces[3])
     /\ normalized = Concat(pieces))
    => /\ pieces[2] \in WellFormed => parts = <<pieces[1], pieces[3]>>
       /\ pieces[2] \in Malformed => parts = <<normalized>>

\* C6: a line is removed if and only if it is a rule line (three or more
\* repetitions of one of - * _ between spaces and tabs); every other line is
\* kept as it is.
C6_RuleStrippingExact ==
    (pc # "input" /\ ~Contains(DeleteChars(document, Marks), Token))
    => LET src == Lines(DeleteChars(document, Marks))
           out == Lines(normalized)
       IN  /\ Len(out) = Len(src)
           /\ \A k \in DOMAIN src : out[k] = IF IsRuleLine(src[k]) THEN "" ELSE src[k]

\* C7: a single newline before the chapter token becomes two newlines, and a
\* token that a blank line already precedes is left as it is.
C7_ChapterSpacing ==
    (pc # "input" /\ \A i \in DOMAIN pieces : pieces[i] \in {"a", " ", "\n", Token})
    => normalized = ExpectedToc(document, 0)

C9_DocumentIsString ==
    pc = "app" =>
      /\ markdown.type = "string"
      /\ ~threw
      /\ event = "load-nonstring" => markdown = Str("")
      /\ event \in {"error", "cancel"} => markdown = prev

C9_Witness ==
    /\ pc = "app"
    /\ event = "load-nonstring"
    /\ prev = Str(FileText["A"])
    /\ markdown = Str("")
    /\ pages = <<>>

\* C10: once every read has completed with a string, the document is the
\* content of the file picked last.
C10_LastPickWins ==
    (/\ pc = "app"
     /\ Len(readers) >= 2
     /\ \A i \in DOMAIN readers :
           readers[i].readyState = "DONE" /\ readers[i].result.type = "string")
    => markdown = Str(FileText[readers[Len(readers)].file])

====
